---- MODULE Spec2Model ----
(***************************************************************************)
(* go-fetch-rss: fetch an RSS feed, keep the items published on the target *)
(* date, fetch each item's link with an http.Client whose CheckRedirect    *)
(* stops on a redirect to the sentinel scheme, and write either the body   *)
(* (<title>.<ext>) or the redirect target (<title>.<redir-ext>).           *)
(***************************************************************************)
EXTENDS Integers, Sequences, FiniteSets, TLC

\* Longest feed explored.
MaxItems == 2
\* The per-item request counter saturates here (the chain itself is unbounded).
MaxHops == 3

StatusOK == 200
StatusFound == 302

-----------------------------------------------------------------------------
(* URLs and paths *)

NoURL == [scheme |-> "", host |-> "", path |-> ""]
U1 == [scheme |-> "http", host |-> "h", path |-> "/1"]
U2 == [scheme |-> "http", host |-> "h", path |-> "/2"]
Rel2 == [scheme |-> "", host |-> "", path |-> "/2"]
Sentinel == [scheme |-> "redirect", host |-> "x", path |-> "/p"]
Ftp == [scheme |-> "ftp", host |-> "f", path |-> "/z"]

HttpURLs == {U1, U2}

\* url.URL.String of an absolute URL
URLString(u) == u.scheme \o "://" \o u.host \o u.path

\* url.URL.Parse(ref) relative to base, as Response.Location applies it
ResolveReference(base, ref) ==
    IF ref.scheme = ""
    THEN [scheme |-> base.scheme, host |-> base.host, path |-> ref.path]
    ELSE ref

-----------------------------------------------------------------------------
(* Publish dates: the fields of a pubDate text, parsed by the fixed layout. *)
(* ParseTimeAnyZone is ParseTime with a zone verb in place of the literal.  *)

ShortDayNames == {"Sun", "Mon", "Tue", "Wed", "Thu", "Fri", "Sat"}
ShortMonthNames ==
    <<"Jan", "Feb", "Mar", "Apr", "May", "Jun",
      "Jul", "Aug", "Sep", "Oct", "Nov", "Dec">>

MonthNumber(name) ==
    IF \E m \in 1..12 : ShortMonthNames[m] = name
    THEN CHOOSE m \in 1..12 : ShortMonthNames[m] = name
    ELSE 0

IsLeap(y) == (y % 4 = 0) /\ ((y % 100 # 0) \/ (y % 400 = 0))

DaysIn(m, y) ==
    IF m = 2 THEN (IF IsLeap(y) THEN 29 ELSE 28)
    ELSE IF m \in {4, 6, 9, 11} THEN 30 ELSE 31

ParseTimeAnyZone(s) ==
    LET m == MonthNumber(s.mon)
        ok == /\ s.wd \in ShortDayNames
              /\ m # 0
              /\ s.day >= 1
              /\ s.day <= DaysIn(m, s.year)
    IN [ok |-> ok, year |-> s.year, month |-> m, day |-> s.day]

\* time.Parse("Mon, 2 Jan 2006 15:04:05 +0000", s): the weekday must be a
\* short day name (its value is not checked against the date), the month a
\* short month name, the day in range for the month, and the text must end
\* with the literal " +0000" ("+0000" is no zone verb of the layout).
ParseTime(s) ==
    LET m == MonthNumber(s.mon)
        ok == /\ s.wd \in ShortDayNames
              /\ m # 0
              /\ s.day >= 1
              /\ s.day <= DaysIn(m, s.year)
              /\ s.zone = "+0000"
    IN [ok |-> ok, year |-> s.year, month |-> m, day |-> s.day]

Digit(n) ==
    CASE n = 0 -> "0" [] n = 1 -> "1" [] n = 2 -> "2" [] n = 3 -> "3"
      [] n = 4 -> "4" [] n = 5 -> "5" [] n = 6 -> "6" [] n = 7 -> "7"
      [] n = 8 -> "8" [] n = 9 -> "9"

Pad2(n) == Digit((n \div 10) % 10) \o Digit(n % 10)
Pad4(n) == Pad2(n \div 100) \o Pad2(n % 100)

\* t.Format(dateFormat), dateFormat = "2006-01-02"
FormatDate(t) == Pad4(t.year) \o "-" \o Pad2(t.month) \o "-" \o Pad2(t.day)

-----------------------------------------------------------------------------
(* Inputs: feeds, flags and the servers behind the item links *)

PubMatch == [wd |-> "Tue", day |-> 9, mon |-> "Jan", year |-> 2024, zone |-> "+0000"]
PubOther == [wd |-> "Thu", day |-> 11, mon |-> "Jan", year |-> 2024, zone |-> "+0000"]
PubZone == [wd |-> "Tue", day |-> 9, mon |-> "Jan", year |-> 2024, zone |-> "+0100"]
PubBadDay == [wd |-> "Fri", day |-> 30, mon |-> "Feb", year |-> 2024, zone |-> "+0000"]

\* A title is its "/"-separated segments: "x/y" is <<"x", "y">>.
ItemPool ==
    { [title |-> <<"a">>, pubDate |-> PubMatch, link |-> U1],
      [title |-> <<"x", "y">>, pubDate |-> PubMatch, link |-> U2],
      [title |-> <<"a">>, pubDate |-> PubOther, link |-> U2],
      [title |-> <<"c">>, pubDate |-> PubZone, link |-> U1],
      [title |-> <<"d">>, pubDate |-> PubBadDay, link |-> U2] }

Feeds == UNION { [1..n -> ItemPool] : n \in 0..MaxItems }

TargetDates == {"2024-01-09", "2024-1-9"}

Flags ==
    [dryRun : BOOLEAN, targetDate : TargetDates, outputDir : {"."},
     fileExtension : {"file"}, redirectFileExtension : {"redirect", "http"}]

Resp(status, hasLoc, loc, body) ==
    [err |-> FALSE, status |-> status, hasLoc |-> hasLoc, loc |-> loc, body |-> body]

TransportError == [err |-> TRUE, status |-> 0, hasLoc |-> FALSE, loc |-> NoURL, body |-> ""]

Responses ==
    { Resp(200, FALSE, NoURL, "ABC"),
      Resp(404, FALSE, NoURL, "nf"),
      Resp(302, TRUE, U1, ""),
      Resp(302, TRUE, Rel2, ""),
      Resp(302, TRUE, Sentinel, ""),
      Resp(301, TRUE, Sentinel, ""),
      Resp(302, TRUE, Ftp, ""),
      Resp(302, FALSE, NoURL, ""),
      TransportError }

NoResponse ==
    [nil |-> TRUE, status |-> 0, hasLoc |-> FALSE, loc |-> NoURL, body |-> "",
     reqURL |-> NoURL]

FeedResponses ==
    {TransportError} \cup { Resp(s, FALSE, NoURL, f) : s \in {200, 500}, f \in Feeds }

VARIABLES flags, server, pc, feedRes, items, idx, cur, itemRes, err,
          outcomes, reqs, writes, files

vars == <<flags, server, pc, feedRes, items, idx, cur, itemRes, err,
          outcomes, reqs, writes, files>>

Init ==
    /\ flags \in Flags
    /\ server \in [HttpURLs -> Responses]
    /\ pc = "start"
    /\ feedRes = [fetched |-> FALSE, nil |-> TRUE, status |-> 0]
    /\ items = <<>>
    /\ idx = 1
    /\ cur = NoURL
    /\ itemRes = NoResponse
    /\ err = ""
    /\ outcomes = <<>>
    /\ reqs = <<>>
    /\ writes = <<>>
    /\ files = {}

-----------------------------------------------------------------------------
(* The filesystem: os.WriteFile creates or truncates the file and fails when *)
(* the file's directory does not exist; only the output directory exists.    *)

\* fmt.Sprintf("%s.%s", item.Title, ext), as path segments
FileName(title, ext) == [title EXCEPT ![Len(title)] = @ \o "." \o ext]

\* path.Join(*outputDir, name)
PathJoin(dir, name) == <<dir>> \o name

Dir(path) == SubSeq(path, 1, Len(path) - 1)

WriteSucceeds(path) == Dir(path) = <<flags.outputDir>>

\* The files after os.WriteFile(path, data, 0666), its error discarded.
WriteFile(fs, path, data) ==
    IF WriteSucceeds(path)
    THEN { f \in fs : f.path # path } \cup { [path |-> path, data |-> data] }
    ELSE fs

WriteRecord(i, path, data) ==
    [item |-> i, path |-> path, data |-> data, ok |-> WriteSucceeds(path)]

-----------------------------------------------------------------------------
(* net/http as the program uses it *)

\* One round trip: a transport error for a scheme the transport does not
\* speak, else what the server answers for the URL.
Send(u) == IF u \in HttpURLs THEN server[u] ELSE TransportError

\* Response.Location(): the Location header resolved against the request URL
Location(res) == ResolveReference(res.reqURL, res.loc)

\* redirectBehavior: the statuses the client treats as a redirect (GET, no body)
ShouldRedirect(res) == res.status \in {301, 302, 303, 307, 308}

\* Variants of the hook: one stops every redirect, one stops every redirect
\* that leaves http.
CheckRedirectAlways(res) == TRUE

CheckRedirectNonHttp(res) == Location(res).scheme # "http"

\* The CheckRedirect hook: TRUE when it returns the "caught redirect" error.
CheckRedirect(res) == Location(res).scheme = flags.redirectFileExtension

-----------------------------------------------------------------------------
(* main *)

\* Variant of the loop's continue: a failed item ends the run.
FinishedOrAbort(outcome) ==
    /\ outcomes' = Append(outcomes, outcome)
    /\ idx' = idx + 1
    /\ pc' = IF outcome \in {"ParseError", "FetchError"} THEN "aborted" ELSE "loop"

\* continue / the end of the loop body: on to the next item
Finished(outcome) ==
    /\ outcomes' = Append(outcomes, outcome)
    /\ idx' = idx + 1
    /\ pc' = "loop"

FeedFetchFailedNever(res) == FALSE

\* if res.StatusCode != 200
FeedFetchFailed(res) == res.status # StatusOK

DateMismatchNever(t) == FALSE

\* if *targetDate != t.Format(dateFormat)
DateMismatch(t) == flags.targetDate # FormatDate(t)

DryRunIgnored == FALSE

\* if *dryRun
DryRun == flags.dryRun

\* if err != nil && itemRes != nil && itemRes.StatusCode == http.StatusFound
IsCaughtRedirect(res, e) == e # "" /\ ~res.nil /\ res.status = StatusFound

IsOKAlways(res) == TRUE

\* if itemRes.StatusCode == http.StatusOK
IsOK(res) == res.status = StatusOK

\* http.Get(*url), the status check, and xml.Unmarshal of the body
FetchFeed ==
    /\ pc = "start"
    /\ \E res \in FeedResponses :
          /\ feedRes' = [fetched |-> TRUE, nil |-> res.err, status |-> res.status]
          /\ IF res.err
             THEN \* res is nil: res.StatusCode panics
                  /\ pc' = "panicked"
                  /\ UNCHANGED <<items, reqs>>
             ELSE IF FeedFetchFailed(res)
             THEN /\ pc' = "aborted"
                  /\ UNCHANGED <<items, reqs>>
             ELSE /\ pc' = "loop"
                  /\ items' = res.body
                  /\ reqs' = [i \in 1..Len(res.body) |-> 0]
    /\ UNCHANGED <<flags, server, idx, cur, itemRes, err, outcomes, writes, files>>

\* The head of the loop body: date parse, date filter, dry-run check.
FilterItem ==
    /\ pc = "loop"
    /\ idx <= Len(items)
    /\ LET item == items[idx]
           t == ParseTime(item.pubDate)
       IN IF ~t.ok
          THEN Finished("ParseError") /\ UNCHANGED cur
          ELSE IF DateMismatch(t)
          THEN Finished("DateMismatch") /\ UNCHANGED cur
          ELSE IF DryRun
          THEN Finished("DryRun") /\ UNCHANGED cur
          ELSE /\ pc' = "fetching"
               /\ cur' = item.link
               /\ UNCHANGED <<outcomes, idx>>
    /\ UNCHANGED <<flags, server, feedRes, items, itemRes, err, reqs, writes, files>>

\* One round trip of client.Get(item.Link): a transport error or a response
\* that is no redirect (or carries no Location) ends the call; a redirect
\* goes to the CheckRedirect hook.
ClientSend ==
    /\ pc = "fetching"
    /\ reqs' = [reqs EXCEPT ![idx] = IF @ < MaxHops THEN @ + 1 ELSE @]
    /\ LET r == Send(cur)
           res == [nil |-> FALSE, status |-> r.status, hasLoc |-> r.hasLoc,
                   loc |-> r.loc, body |-> r.body, reqURL |-> cur]
       IN IF r.err
          THEN /\ itemRes' = NoResponse
               /\ err' = "transport"
               /\ pc' = "handle"
          ELSE IF ~ShouldRedirect(res) \/ ~res.hasLoc
          THEN /\ itemRes' = res
               /\ err' = ""
               /\ pc' = "handle"
          ELSE /\ itemRes' = res
               /\ err' = ""
               /\ pc' = "redirect"
    /\ UNCHANGED <<flags, server, feedRes, items, idx, cur, outcomes, writes, files>>

\* The client calls the hook for the redirect response: its error ends the
\* call with the response and the error, nil sends the next request.
RedirectHook ==
    /\ pc = "redirect"
    /\ IF CheckRedirect(itemRes)
       THEN /\ err' = "caught redirect"
            /\ pc' = "handle"
            /\ UNCHANGED <<cur, itemRes>>
       ELSE /\ cur' = Location(itemRes)
            /\ itemRes' = NoResponse
            /\ pc' = "fetching"
            /\ UNCHANGED err
    /\ UNCHANGED <<flags, server, feedRes, items, idx, outcomes, reqs, writes, files>>

\* What main does with (itemRes, err).
HandleResult ==
    /\ pc = "handle"
    /\ LET title == items[idx].title
           redirPath == PathJoin(flags.outputDir,
                                 FileName(title, flags.redirectFileExtension))
           filePath == PathJoin(flags.outputDir,
                                FileName(title, flags.fileExtension))
       IN IF IsCaughtRedirect(itemRes, err)
          THEN /\ writes' = Append(writes,
                     WriteRecord(idx, redirPath, URLString(Location(itemRes))))
               /\ files' = WriteFile(files, redirPath, URLString(Location(itemRes)))
               /\ Finished("RedirectCaptured")
          ELSE IF err # ""
          THEN /\ Finished("FetchError")
               /\ UNCHANGED <<writes, files>>
          ELSE IF IsOK(itemRes)
          THEN /\ writes' = Append(writes, WriteRecord(idx, filePath, itemRes.body))
               /\ files' = WriteFile(files, filePath, itemRes.body)
               /\ Finished("Downloaded")
          ELSE /\ Finished("NotOK")
               /\ UNCHANGED <<writes, files>>
    /\ cur' = NoURL
    /\ itemRes' = NoResponse
    /\ err' = ""
    /\ UNCHANGED <<flags, server, feedRes, items, reqs>>

\* The loop is exhausted: "Done all!"
Finish ==
    /\ pc = "loop"
    /\ idx > Len(items)
    /\ pc' = "done"
    /\ UNCHANGED <<flags, server, feedRes, items, idx, cur, itemRes, err,
                   outcomes, reqs, writes, files>>

Next == FetchFeed \/ FilterItem \/ ClientSend \/ RedirectHook \/ HandleResult \/ Finish

Spec == Init /\ [][Next]_vars

\* main is the only thread: it takes its next step whenever it has one.
FairSpec == Spec /\ WF_vars(Next)
-----------------------------------------------------------------------------
(* What the properties speak of, stated on the inputs alone *)

\* The pubDate conforms to "Mon, 2 Jan 2006 15:04:05 +0000".
LayoutAccepts(s) ==
    /\ s.zone = "+0000"
    /\ s.wd \in ShortDayNames
    /\ MonthNumber(s.mon) \in 1..12
    /\ s.day \in 1..DaysIn(MonthNumber(s.mon), s.year)

\* The YYYY-MM-DD form of a conforming pubDate.
DateText(s) == Pad4(s.year) \o "-" \o Pad2(MonthNumber(s.mon)) \o "-" \o Pad2(s.day)

DateMatched(item) ==
    LayoutAccepts(item.pubDate) /\ DateText(item.pubDate) = flags.targetDate

DateDiffers(item) ==
    LayoutAccepts(item.pubDate) /\ DateText(item.pubDate) # flags.targetDate

RedirectStatuses == {301, 302, 303, 307, 308}

\* With a server that answers each URL the same way every time, a chain that
\* asks for more URLs than there are has come back to one it already asked.
Fuel == Cardinality(HttpURLs)

\* Where the redirect chain that starts at u ends: a transport error, a
\* redirect to the sentinel scheme, a response that is no redirect, or never.
RECURSIVE ChainEnd(_, _)
ChainEnd(u, n) ==
    LET r == Send(u)
        t == ResolveReference(u, r.loc)
    IN IF r.err
       THEN [kind |-> "error", status |-> 0, target |-> NoURL, body |-> ""]
       ELSE IF r.status \in RedirectStatuses /\ r.hasLoc
       THEN IF t.scheme = flags.redirectFileExtension
            THEN [kind |-> "sentinel", status |-> r.status, target |-> t, body |-> ""]
            ELSE IF n = 0
            THEN [kind |-> "endless", status |-> 0, target |-> NoURL, body |-> ""]
            ELSE ChainEnd(t, n - 1)
       ELSE [kind |-> "final", status |-> r.status, target |-> NoURL, body |-> r.body]

End(item) == ChainEnd(item.link, Fuel)

\* The item is one main fetches: date-matched, dry-run off.
Fetched(item) == DateMatched(item) /\ ~flags.dryRun

WritesOf(i) == { k \in 1..Len(writes) : writes[k].item = i }

ContentPath(item) == PathJoin(flags.outputDir, FileName(item.title, flags.fileExtension))
PointerPath(item) ==
    PathJoin(flags.outputDir, FileName(item.title, flags.redirectFileExtension))

\* The item made exactly one WriteFile call, for this path with this content.
WroteOnly(i, path, data) ==
    /\ Cardinality(WritesOf(i)) = 1
    /\ \A k \in WritesOf(i) : writes[k].path = path /\ writes[k].data = data

\* The file system holds what the last successful write of each path left.
HoldsFile(path, data) == [path |-> path, data |-> data] \in files
NoFileAt(path) == \A f \in files : f.path # path

Processed == 1..Len(outcomes)

FeedFetchedOK == feedRes.fetched /\ ~feedRes.nil /\ feedRes.status = 200

-----------------------------------------------------------------------------
(* Properties *)

\* C1, for the items whose pointer file can be created (the title names no
\* missing directory): every fetched item (date-matched, dry-run off) whose
\* redirect chain reaches a redirect, of any redirect status, to a URL of the
\* redir-ext scheme has exactly the file <out>/<title>.<redir-ext> written,
\* holding the absolute target URL, and no <title>.<ext> file written.
C1_SentinelRedirectWritesPointer ==
    \A i \in Processed :
        (/\ Fetched(items[i])
         /\ End(items[i]).kind = "sentinel"
         /\ Dir(PointerPath(items[i])) = <<flags.outputDir>>)
        => /\ WroteOnly(i, PointerPath(items[i]), URLString(End(items[i]).target))
           /\ HoldsFile(PointerPath(items[i]), URLString(End(items[i]).target))

C3_DryRunNoEffects ==
    flags.dryRun =>
        /\ writes = <<>>
        /\ files = {}
        /\ \A i \in DOMAIN reqs : reqs[i] = 0
        /\ pc \notin {"fetching", "redirect", "handle"}

C3_Witness ==
    /\ flags.dryRun
    /\ pc = "done"
    /\ \E i, j \in Processed :
          /\ DateMatched(items[i]) /\ outcomes[i] = "DryRun"
          /\ ~LayoutAccepts(items[j].pubDate)

\* C4: an item whose publish date parses and differs from the target date
\* ends as Skipped(DateMismatch), with no request to its link and no file
\* written for it, whatever the dry-run setting.
C4_DateMismatchSkipped ==
    \A i \in DOMAIN items :
        DateDiffers(items[i])
        => /\ reqs[i] = 0
           /\ WritesOf(i) = {}
           /\ (i \in Processed => outcomes[i] = "DateMismatch")
           /\ (pc \in {"fetching", "redirect", "handle"} => idx # i)

C4_Witness ==
    /\ pc = "done"
    /\ ~flags.dryRun
    /\ \E i, j \in Processed :
          /\ DateDiffers(items[i]) /\ outcomes[i] = "DateMismatch"
          /\ items[i].pubDate = PubOther
          /\ outcomes[j] = "Downloaded"

\* C5: an item whose publishDate does not parse under the fixed layout ends
\* in Error: it is never Downloaded or RedirectCaptured, no request to its
\* link is issued and no file is written for it.
C5_UnparsableDateIsError ==
    \A i \in DOMAIN items :
        ~LayoutAccepts(items[i].pubDate)
        => /\ reqs[i] = 0
           /\ WritesOf(i) = {}
           /\ (i \in Processed => outcomes[i] = "ParseError")
           /\ (pc \in {"fetching", "redirect", "handle"} => idx # i)

C5_Witness ==
    /\ pc = "done"
    /\ ~flags.dryRun
    /\ flags.targetDate = "2024-01-09"
    /\ \E i, j \in Processed :
          /\ items[i].pubDate = PubZone /\ outcomes[i] = "ParseError"
          /\ items[j].pubDate = PubBadDay /\ outcomes[j] = "ParseError"

\* C6: when the feed fetch fails, by a non-200 status or by a transport
\* error that yields no response, the run is over at once: no item is
\* processed, no item link is requested and no file is written.
C6_FeedFailureAborts ==
    (feedRes.fetched /\ (feedRes.nil \/ feedRes.status # 200))
    => /\ pc \in {"aborted", "panicked"}
       /\ items = <<>>
       /\ outcomes = <<>>
       /\ reqs = <<>>
       /\ writes = <<>>
       /\ files = {}

C6_Witness ==
    /\ feedRes.fetched /\ ~feedRes.nil /\ feedRes.status = 500
    /\ pc = "aborted"

\* The outcome main gives an item, as a function of the item, the flags and
\* the server alone.
AloneOutcome(item) ==
    IF ~LayoutAccepts(item.pubDate) THEN "ParseError"
    ELSE IF DateText(item.pubDate) # flags.targetDate THEN "DateMismatch"
    ELSE IF flags.dryRun THEN "DryRun"
    ELSE CASE End(item).kind = "error" -> "FetchError"
           [] End(item).kind = "sentinel" ->
                 IF End(item).status = 302 THEN "RedirectCaptured" ELSE "FetchError"
           [] End(item).kind = "final" ->
                 IF End(item).status = 200 THEN "Downloaded" ELSE "NotOK"
           [] OTHER -> "Never"

Failures == {"ParseError", "FetchError", "NotOK"}

C8_WritesOnlyOnSuccess ==
    /\ \A k \in DOMAIN writes :
          /\ writes[k].item \in Processed
          /\ outcomes[writes[k].item] \in {"Downloaded", "RedirectCaptured"}
    /\ \A i \in DOMAIN items : Cardinality(WritesOf(i)) <= 1
    /\ \A i \in Processed :
          (\/ ~Fetched(items[i])
           \/ End(items[i]).kind = "error"
           \/ (End(items[i]).kind = "final" /\ End(items[i]).status # 200)
           \/ outcomes[i] \in Failures)
          => WritesOf(i) = {}
    /\ \A f \in files : \E k \in DOMAIN writes :
          writes[k].ok /\ writes[k].path = f.path /\ writes[k].data = f.data

C8_Witness ==
    /\ pc = "done"
    /\ Len(items) = 2
    /\ Fetched(items[1])
    /\ End(items[1]).kind = "final" /\ End(items[1]).status = 404
    /\ outcomes[1] = "NotOK"
    /\ outcomes[2] = "Downloaded"
    /\ Len(writes) = 1

Terminal == {"DateMismatch", "DryRun", "Downloaded", "RedirectCaptured"} \cup Failures

\* C9: once the feed has been fetched and parsed, every item eventually
\* reaches a terminal state and the run finishes, whatever the servers
\* answer, redirects without end included.
C9_RunFinishes ==
    [](pc = "loop" =>
         <>(/\ pc = "done"
            /\ Len(outcomes) = Len(items)
            /\ \A i \in Processed : outcomes[i] \in Terminal))

URLs == {U1, U2, Sentinel, Ftp}

IsPointerWrite(w) == w.path = PointerPath(items[w.item])

\* Every pointer write stores a URL of the redir-ext scheme, the target of
\* the sentinel redirect the item's chain reached; and a chain is stopped
\* with the hook's error only on such a redirect.
C10_PointerInv ==
    /\ \A k \in DOMAIN writes :
          IsPointerWrite(writes[k]) =>
              /\ End(items[writes[k].item]).kind = "sentinel"
              /\ \E u \in URLs :
                    /\ u.scheme = flags.redirectFileExtension
                    /\ u = End(items[writes[k].item]).target
                    /\ writes[k].data = URLString(u)
    /\ \A f \in files :
          (\E i \in DOMAIN items : f.path = PointerPath(items[i]))
          => \E u \in URLs :
                u.scheme = flags.redirectFileExtension /\ f.data = URLString(u)
    /\ (pc = "handle" /\ err = "caught redirect" =>
          /\ ~itemRes.nil
          /\ itemRes.status \in RedirectStatuses
          /\ itemRes.hasLoc
          /\ ResolveReference(itemRes.reqURL, itemRes.loc).scheme
                = flags.redirectFileExtension)

\* The hook is consulted for each redirect response, once: a redirect to
\* another scheme than redir-ext is followed, a redirect to the redir-ext
\* scheme stops the chain.
C10_HopStep ==
    /\ (pc = "fetching" /\ ~Send(cur).err
          /\ Send(cur).status \in RedirectStatuses /\ Send(cur).hasLoc)
       => pc' = "redirect"
    /\ pc = "redirect"
       => IF ResolveReference(cur, itemRes.loc).scheme # flags.redirectFileExtension
          THEN pc' = "fetching" /\ cur' = ResolveReference(cur, itemRes.loc)
          ELSE pc' = "handle" /\ err' = "caught redirect"
    /\ pc' = "redirect" => pc = "fetching"

\* C10: the redirect policy stops a chain only on a redirect whose target
\* scheme is redir-ext and every other redirect is followed; a pointer file
\* is written only after such a stop, so the scheme of the URL a pointer
\* file stores equals the file's extension.
C10_PolicyAndPointer == []C10_PointerInv /\ [][C10_HopStep]_vars

C10_Witness ==
    /\ pc = "done"
    /\ flags.redirectFileExtension = "redirect"
    /\ \E i \in Processed :
          /\ reqs[i] = 2
          /\ outcomes[i] = "RedirectCaptured"
          /\ HoldsFile(PointerPath(items[i]), "redirect://x/p")
====
